---- MODULE Spec2Model ----
(***************************************************************************)
(* The custom cfn-lint rules of shared/lint/rules/custom_rules.py           *)
(* (E9000 .. E9007) as a state machine: a process holds the rule classes    *)
(* (with their class-level attributes), loads a template and calls the      *)
(* match method of each registered rule, in any order, run after run.       *)
(*                                                                         *)
(* Python values are records of one field, named after the type:            *)
(*   None   [none |-> 0]                                                    *)
(*   str    [str |-> sequence of chunks]; the text is the                   *)
(*          concatenation of the chunks; the characters "$", "{" and "}"    *)
(*          are always chunks of their own, every other chunk is a non-     *)
(*          empty run of other characters and no two such runs are          *)
(*          adjacent, so equal texts have equal chunk sequences             *)
(*   dict   [dict |-> function from keys to values]                         *)
(*   list   [list |-> sequence of values]                                   *)
(* and a raised exception is [raise |-> exception class].                   *)
(* Resources and Parameters, whose order the rules iterate in, are          *)
(* sequences in document order.                                             *)
(***************************************************************************)
EXTENDS Integers, Sequences, FiniteSets, TLC

VARIABLES
    template,               \* the cfn object the rules are matched against
    _mandatory_parameters,  \* MandatoryParametersRule._mandatory_parameters (class attribute)
    registry,               \* the rule ids registered in this process
    done,                   \* the rules whose match has returned in the current run
    out,                    \* rule id -> outcome of its match in the current run
    prevOut,                \* rule id -> outcome in the previous run on the same template
    runNo                   \* number of the current run

vars == <<template, _mandatory_parameters, registry, done, out, prevOut, runNo>>

(* ------------------------------ bounds --------------------------------- *)

MaxResources == 2     \* inspected resources (or parameters) per template
MaxTargets == 2       \* entries of an Events rule's Targets list
MaxStatements == 2    \* statements of an inline policy
MaxRuns == 2          \* runs of the rules in one process

(* --------------------------- Python values ----------------------------- *)

\* the tag and the payload of a value
Tag(x) == CHOOSE k \in DOMAIN x : TRUE
Val(x) == x[Tag(x)]

None == [none |-> 0]
Str(s) == [str |-> <<s>>]
Text(chunks) == [str |-> chunks]
Dict(f) == [dict |-> f]
List(q) == [list |-> q]
Raise(e) == [raise |-> e]
EmptyDict == Dict([k \in {} |-> None])
EmptyList == List(<<>>)

Ok(matches) == [ok |-> matches]
NotRun == [notrun |-> 0]

RECURSIVE Join(_)
Join(chunks) == IF chunks = <<>> THEN "" ELSE Head(chunks) \o Join(Tail(chunks))

RECURSIVE SetToSeq(_)
SetToSeq(S) == IF S = {} THEN <<>> ELSE LET x == CHOOSE y \in S : TRUE IN <<x>> \o SetToSeq(S \ {x})

InSeq(x, q) == \E i \in 1..Len(q) : q[i] = x

\* d.get(k, default)
PyGet(d, k, default) ==
    IF Tag(d) = "raise" THEN d
    ELSE IF Tag(d) # "dict" THEN Raise("AttributeError")
    ELSE IF k \in DOMAIN Val(d) THEN Val(d)[k] ELSE default

\* d[k] on a dict
PyItem(d, k) ==
    IF Tag(d) = "raise" THEN d
    ELSE IF Tag(d) # "dict" THEN Raise("TypeError")
    ELSE IF k \in DOMAIN Val(d) THEN Val(d)[k] ELSE Raise("KeyError")

\* l[0]; the model subscripts lists only (a dict has no key 0, None no items)
PyFirst(l) ==
    IF Tag(l) = "raise" THEN l
    ELSE IF Tag(l) = "list" THEN (IF Val(l) = <<>> THEN Raise("IndexError") ELSE Val(l)[1])
    ELSE IF Tag(l) = "dict" THEN Raise("KeyError")
    ELSE Raise("TypeError")

Bool(b) == [bool |-> b]

\* x in c: Bool or a raise.  A dict is searched by key, a list by item, None
\* is not a container.  On a str container Python tests for a substring; no
\* text of the model is a proper substring of another one it is tested
\* against, so equality decides it.
PyIn(x, c) ==
    IF Tag(c) = "raise" THEN c
    ELSE IF Tag(c) = "dict" THEN Bool(Tag(x) = "str" /\ Join(Val(x)) \in DOMAIN Val(c))
    ELSE IF Tag(c) = "list" THEN Bool(InSeq(x, Val(c)))
    ELSE IF Tag(c) = "str" THEN (IF Tag(x) = "str" THEN Bool(x = c) ELSE Raise("TypeError"))
    ELSE Raise("TypeError")

\* the items a for loop over v visits, as a list, or a raise
PyIter(v) ==
    IF Tag(v) = "raise" THEN v
    ELSE IF Tag(v) = "list" THEN v
    ELSE IF Tag(v) = "dict" THEN List([i \in 1..Cardinality(DOMAIN Val(v)) |-> Str(SetToSeq(DOMAIN Val(v))[i])])
    ELSE Raise("TypeError")

IsRaise(x) == Tag(x) = "raise"

\* bool(v)
PyTruthy(v) ==
    IF Tag(v) = "none" THEN FALSE
    ELSE IF Tag(v) = "dict" THEN DOMAIN Val(v) # {}
    ELSE Val(v) # <<>>

\* "{}".format(v)
PyFormat(v) == IF Tag(v) = "str" THEN Join(Val(v)) ELSE IF Tag(v) = "none" THEN "None" ELSE "<" \o Tag(v) \o ">"

RuleMatch(path, message) == [path |-> path, message |-> message]

(* ------------------------------ cfn object ----------------------------- *)

\* cfn.get_parameters().keys(): the parameter names in document order
get_parameters(cfn) == cfn.Parameters

\* cfn.get_resources(types): the resources whose Type is one of types, in
\* document order, as a sequence of [name, body]
get_resources(cfn, types) ==
    SelectSeq(cfn.Resources, LAMBDA e : PyGet(e.body, "Type", None) \in {Str(ty) : ty \in types})

Names(resources) == [i \in 1..Len(resources) |-> resources[i].name]

(* ------------------------- E9000 MandatoryParametersRule ---------------- *)

\* the class attribute as the class body sets it
MandatoryParametersRule_mandatory_parameters == <<"Environment">>

\* list.remove(x): the list without the first item equal to x
ListRemove(l, x) ==
    LET i == CHOOSE j \in 1..Len(l) : l[j] = x /\ \A k \in 1..(j - 1) : l[k] # x
    IN SubSeq(l, 1, i - 1) \o SubSeq(l, i + 1, Len(l))

\* the loop with the removal left out: every mandatory parameter stays listed
MandatoryParametersRule_loop_keep(keys, mandatory_parameters) == mandatory_parameters

\* for key in cfn.get_parameters().keys(): if key in mandatory_parameters: remove
RECURSIVE MandatoryParametersRule_loop(_, _)
MandatoryParametersRule_loop(keys, mandatory_parameters) ==
    IF keys = <<>> THEN mandatory_parameters
    ELSE MandatoryParametersRule_loop(Tail(keys),
            IF InSeq(Head(keys), mandatory_parameters)
            THEN ListRemove(mandatory_parameters, Head(keys))
            ELSE mandatory_parameters)

MandatoryParametersRule_message(param) == "Missing parameter '" \o param \o "'"

RECURSIVE MandatoryParametersRule_matches(_)
MandatoryParametersRule_matches(params) ==
    IF params = <<>> THEN <<>>
    ELSE <<RuleMatch(<<"Parameters">>, MandatoryParametersRule_message(Head(params)))>>
         \o MandatoryParametersRule_matches(Tail(params))

\* match without the deep copy: the loop removes from the class attribute itself
MandatoryParametersRule_match_alias(cls, cfn) ==
    LET mandatory_parameters == MandatoryParametersRule_loop(get_parameters(cfn), cls)
    IN [ret |-> Ok(MandatoryParametersRule_matches(mandatory_parameters)), cls |-> mandatory_parameters]

\* match(self, cfn) with the class attribute cls: the returned value and the
\* class attribute afterwards (the loop works on a deep copy, so cls is kept)
MandatoryParametersRule_match(cls, cfn) ==
    LET mandatory_parameters == MandatoryParametersRule_loop(get_parameters(cfn), cls)
    IN [ret |-> Ok(MandatoryParametersRule_matches(mandatory_parameters)), cls |-> cls]

(* ------------------------------ E9001 Python39Rule ---------------------- *)

Python39Rule_runtime == Str("python3.9")

Python39Rule_message(actual, expected) ==
    "Function is using " \o PyFormat(actual) \o " runtime instead of " \o PyFormat(expected)

RECURSIVE Python39Rule_loop(_, _)
Python39Rule_loop(items, matches) ==
    IF items = <<>> THEN Ok(matches)
    ELSE LET key == Head(items).name
             value == Head(items).body
             runtime == PyGet(PyGet(value, "Properties", None), "Runtime", None)
         IN IF IsRaise(runtime) THEN runtime
            ELSE IF runtime # Python39Rule_runtime
            THEN Python39Rule_loop(Tail(items), Append(matches,
                    RuleMatch(<<"Resources", key>>, Python39Rule_message(runtime, Python39Rule_runtime))))
            ELSE Python39Rule_loop(Tail(items), matches)

Python39Rule_match(cfn) == Python39Rule_loop(get_resources(cfn, {"AWS::Lambda::Function"}), <<>>)

(* ---------------------------- E9002 LambdaLogGroupRule ------------------ *)

Min(S) == CHOOSE x \in S : \A y \in S : x <= y

\* re.search(r"\${(?P<func>[^}]+)}", s)["func"] on the chunks of s: the
\* leftmost "${" followed by at least one character other than "}" and then
\* a "}"; the group runs to the first "}".  None when there is no match.
re_search_func(s) ==
    LET starts == {i \in 1..(Len(s) - 3) :
                      /\ s[i] = "$" /\ s[i + 1] = "{" /\ s[i + 2] # "}"
                      /\ \E j \in (i + 3)..Len(s) : s[j] = "}"}
    IN IF starts = {} THEN None
       ELSE LET i == Min(starts)
                j == Min({k \in (i + 3)..Len(s) : s[k] = "}"})
            IN Text(SubSeq(s, i + 2, j - 1))

LambdaLogGroupRule_message(function) == "Function " \o function \o " does not have a corresponding log group"

\* Scan log groups for resource names: List of the known names, or a raise
RECURSIVE LambdaLogGroupRule_scan(_, _)
LambdaLogGroupRule_scan(log_groups, known) ==
    IF log_groups = <<>> THEN List(known)
    ELSE LET resource == Head(log_groups).body
             has_name == PyIn(Str("LogGroupName"), PyGet(resource, "Properties", None))
             log_group_name == PyGet(PyGet(resource, "Properties", None), "LogGroupName", None)
         IN IF IsRaise(has_name) THEN has_name
            ELSE IF ~Val(has_name) THEN LambdaLogGroupRule_scan(Tail(log_groups), known)
            ELSE IF Tag(log_group_name) # "dict" \/ "Fn::Sub" \notin DOMAIN Val(log_group_name)
            THEN LambdaLogGroupRule_scan(Tail(log_groups), known)
            ELSE LET sub == Val(log_group_name)["Fn::Sub"]
                 IN IF Tag(sub) # "str" THEN Raise("TypeError")
                    ELSE LET match == re_search_func(Val(sub))
                         IN IF Tag(match) # "none"
                            THEN LambdaLogGroupRule_scan(Tail(log_groups), Append(known, Join(Val(match))))
                            ELSE LambdaLogGroupRule_scan(Tail(log_groups), known)

\* Scan functions against log groups
RECURSIVE LambdaLogGroupRule_functions(_, _, _)
LambdaLogGroupRule_functions(functions, known, matches) ==
    IF functions = <<>> THEN Ok(matches)
    ELSE LET function == Head(functions)
         IN IF ~InSeq(function, known)
            THEN LambdaLogGroupRule_functions(Tail(functions), known, Append(matches,
                    RuleMatch(<<"Resources", function>>, LambdaLogGroupRule_message(function))))
            ELSE LambdaLogGroupRule_functions(Tail(functions), known, matches)

LambdaLogGroupRule_match(cfn) ==
    LET functions == get_resources(cfn, {"AWS::Lambda::Function"})
        log_groups == get_resources(cfn, {"AWS::Logs::LogGroup"})
        known == LambdaLogGroupRule_scan(log_groups, <<>>)
    IN IF IsRaise(known) THEN known
       ELSE LambdaLogGroupRule_functions(Names(functions), Val(known), <<>>)

(* ------------------------ E9003 LambdaESMDestinationConfig -------------- *)

\* resource.get("Properties", {}).get("DestinationConfig", {}).get("OnFailure", None)
OnFailureOf(resource) ==
    PyGet(PyGet(PyGet(resource, "Properties", EmptyDict), "DestinationConfig", EmptyDict), "OnFailure", None)

LambdaESMDestinationConfig_message(key) ==
    "Event Source Mapping " \o key \o " does not have a DestinationConfig with OnFailure destination"

RECURSIVE LambdaESMDestinationConfig_loop(_, _)
LambdaESMDestinationConfig_loop(sources, matches) ==
    IF sources = <<>> THEN Ok(matches)
    ELSE LET key == Head(sources).name
             on_failure == OnFailureOf(Head(sources).body)
         IN IF IsRaise(on_failure) THEN on_failure
            ELSE IF Tag(on_failure) = "none"
            THEN LambdaESMDestinationConfig_loop(Tail(sources), Append(matches,
                    RuleMatch(<<"Resources", key>>, LambdaESMDestinationConfig_message(key))))
            ELSE LambdaESMDestinationConfig_loop(Tail(sources), matches)

LambdaESMDestinationConfig_match(cfn) ==
    LambdaESMDestinationConfig_loop(get_resources(cfn, {"AWS::Lambda::EventSourceMapping"}), <<>>)

(* -------------------------- E9004 LambdaRuleInvokeConfig ---------------- *)

LambdaRuleInvokeConfig_message(key) ==
    "Rule " \o key \o " does not have a corresponding Event Invoke Config with OnFailure destination"

\* Get the list of function names with EventInvokeConfig and OnFailure: List
\* of the FunctionName Ref values, or a raise
RECURSIVE LambdaRuleInvokeConfig_configs(_, _)
LambdaRuleInvokeConfig_configs(invoke_configs, invoke_config_functions) ==
    IF invoke_configs = <<>> THEN List(invoke_config_functions)
    ELSE LET resource == Head(invoke_configs).body
             on_failure == OnFailureOf(resource)
             ref == PyItem(PyItem(PyItem(resource, "Properties"), "FunctionName"), "Ref")
         IN IF IsRaise(on_failure) THEN on_failure
            ELSE IF Tag(on_failure) = "none"
            THEN LambdaRuleInvokeConfig_configs(Tail(invoke_configs), invoke_config_functions)
            ELSE IF IsRaise(ref) THEN ref
            ELSE LambdaRuleInvokeConfig_configs(Tail(invoke_configs), Append(invoke_config_functions, ref))

\* x in function_names (the keys of a dict of resources)
InNames(x, names) == Tag(x) = "str" /\ InSeq(Join(Val(x)), names)

\* for target in Targets: one match appended for each target that names an
\* uncovered function
RECURSIVE LambdaRuleInvokeConfig_targets(_, _, _, _, _)
LambdaRuleInvokeConfig_targets(key, targets, function_names, invoke_config_functions, matches) ==
    IF targets = <<>> THEN Ok(matches)
    ELSE LET target == Head(targets)
             get_att == PyGet(PyGet(target, "Arn", EmptyDict), "Fn::GetAtt", None)
             function_name == PyFirst(PyItem(PyItem(target, "Arn"), "Fn::GetAtt"))
             rest == Tail(targets)
         IN IF IsRaise(get_att) THEN get_att
            ELSE IF Tag(get_att) = "none"
            THEN LambdaRuleInvokeConfig_targets(key, rest, function_names, invoke_config_functions, matches)
            ELSE IF IsRaise(function_name) THEN function_name
            ELSE IF ~InNames(function_name, function_names)
            THEN LambdaRuleInvokeConfig_targets(key, rest, function_names, invoke_config_functions, matches)
            ELSE IF ~InSeq(function_name, invoke_config_functions)
            THEN LambdaRuleInvokeConfig_targets(key, rest, function_names, invoke_config_functions,
                    Append(matches, RuleMatch(<<"Resources", key>>, LambdaRuleInvokeConfig_message(key))))
            ELSE LambdaRuleInvokeConfig_targets(key, rest, function_names, invoke_config_functions, matches)

\* Parse rules
RECURSIVE LambdaRuleInvokeConfig_rules(_, _, _, _)
LambdaRuleInvokeConfig_rules(rules, function_names, invoke_config_functions, matches) ==
    IF rules = <<>> THEN Ok(matches)
    ELSE LET key == Head(rules).name
             resource == Head(rules).body
             targets == PyIter(PyGet(PyGet(resource, "Properties", EmptyDict), "Targets", EmptyList))
             after == LambdaRuleInvokeConfig_targets(key, Val(targets), function_names,
                                                     invoke_config_functions, matches)
         IN IF IsRaise(targets) THEN targets
            ELSE IF IsRaise(after) THEN after
            ELSE LambdaRuleInvokeConfig_rules(Tail(rules), function_names, invoke_config_functions, Val(after))

LambdaRuleInvokeConfig_match(cfn) ==
    LET function_names == Names(get_resources(cfn, {"AWS::Lambda::Function"}))
        rules == get_resources(cfn, {"AWS::Events::Rule"})
        invoke_configs == get_resources(cfn, {"AWS::Lambda::EventInvokeConfig"})
        invoke_config_functions == LambdaRuleInvokeConfig_configs(invoke_configs, <<>>)
    IN IF IsRaise(invoke_config_functions) THEN invoke_config_functions
       ELSE LambdaRuleInvokeConfig_rules(rules, function_names, Val(invoke_config_functions), <<>>)

(* ---------------------------- E9005 LambdaInsightsLayer ----------------- *)

LambdaInsightsLayer_layer_pattern ==
    Dict("Fn::Sub" :> Text(<<"arn:aws:lambda:", "$", "{", "AWS::Region", "}",
                             ":580247275435:layer:LambdaInsightsExtension:2">>))

LambdaInsightsLayer_message(key) == "Function " \o key \o " does not use the CloudWatch Lambda Insights layer"

RECURSIVE LambdaInsightsLayer_loop(_, _)
LambdaInsightsLayer_loop(functions, matches) ==
    IF functions = <<>> THEN Ok(matches)
    ELSE LET key == Head(functions).name
             resource == Head(functions).body
             has_layer == PyIn(LambdaInsightsLayer_layer_pattern,
                               PyGet(PyGet(resource, "Properties", EmptyDict), "Layers", EmptyList))
         IN IF IsRaise(has_layer) THEN has_layer
            ELSE IF ~Val(has_layer)
            THEN LambdaInsightsLayer_loop(Tail(functions), Append(matches,
                    RuleMatch(<<"Resources", key>>, LambdaInsightsLayer_message(key))))
            ELSE LambdaInsightsLayer_loop(Tail(functions), matches)

LambdaInsightsLayer_match(cfn) == LambdaInsightsLayer_loop(get_resources(cfn, {"AWS::Lambda::Function"}), <<>>)

(* -------------------------- E9006 LambdaInsightsPermission -------------- *)

LambdaInsightsPermission_policy_arn == Str("arn:aws:iam::aws:policy/CloudWatchLambdaInsightsExecutionRolePolicy")

LambdaInsightsPermission_message(function_name) ==
    "Function " \o function_name \o " does not have the CloudWatch Lambda Insights managed policy"

\* roles.get(name, {}): a missing role read as an empty one
RolesItem_default(roles, name) ==
    IF \E i \in 1..Len(roles) : roles[i].name = name
    THEN roles[CHOOSE i \in 1..Len(roles) : roles[i].name = name].body
    ELSE EmptyDict

\* roles[name]: the body of the resource called name, KeyError when there is none
RolesItem(roles, name) ==
    IF \E i \in 1..Len(roles) : roles[i].name = name
    THEN roles[CHOOSE i \in 1..Len(roles) : roles[i].name = name].body
    ELSE Raise("KeyError")

RECURSIVE LambdaInsightsPermission_loop(_, _, _)
LambdaInsightsPermission_loop(function_names, roles, matches) ==
    IF function_names = <<>> THEN Ok(matches)
    ELSE LET function_name == Head(function_names)
             role == RolesItem(roles, function_name \o "Role")
             has_policy == PyIn(LambdaInsightsPermission_policy_arn,
                                PyGet(PyGet(role, "Properties", EmptyDict), "ManagedPolicyArns", EmptyList))
         IN IF IsRaise(has_policy) THEN has_policy
            ELSE IF ~Val(has_policy)
            THEN LambdaInsightsPermission_loop(Tail(function_names), roles, Append(matches,
                    RuleMatch(<<"Resources", function_name>>, LambdaInsightsPermission_message(function_name))))
            ELSE LambdaInsightsPermission_loop(Tail(function_names), roles, matches)

LambdaInsightsPermission_match(cfn) ==
    LambdaInsightsPermission_loop(Names(get_resources(cfn, {"AWS::Lambda::Function"})),
                                  get_resources(cfn, {"AWS::IAM::Role"}), <<>>)

(* --------------------------- E9007 IAMPutEventsConditions --------------- *)

IAMPutEventsConditions_message(role_name) ==
    "IAM role " \o role_name \o " does not have an events:source condition for the events:PutEvents action"

\* the events:source entry a statement is judged by
EventsSourceOf(statement) ==
    PyGet(PyGet(PyGet(statement, "Condition", EmptyDict), "StringEquals", EmptyDict), "events:source", None)

\* the loop of _match_policy: Bool, or a raise
RECURSIVE IAMPutEventsConditions_statements(_)
IAMPutEventsConditions_statements(statements) ==
    IF statements = <<>> THEN Bool(FALSE)
    ELSE LET statement == Head(statements)
             has_action == PyIn(Str("events:PutEvents"), PyGet(statement, "Action", EmptyDict))
             source == EventsSourceOf(statement)
         IN IF IsRaise(has_action) THEN has_action
            ELSE IF ~Val(has_action) THEN IAMPutEventsConditions_statements(Tail(statements))
            ELSE IF IsRaise(source) THEN source
            ELSE IF ~PyTruthy(source) THEN Bool(TRUE)
            ELSE IAMPutEventsConditions_statements(Tail(statements))

IAMPutEventsConditions_match_policy(policy) ==
    LET statements == PyIter(PyGet(PyGet(policy, "PolicyDocument", EmptyDict), "Statement", EmptyList))
    IN IF IsRaise(statements) THEN statements
       ELSE IAMPutEventsConditions_statements(Val(statements))

\* found = self._match_policy(policy): the last policy decides
RECURSIVE IAMPutEventsConditions_policies_last(_, _)
IAMPutEventsConditions_policies_last(policies, found) ==
    IF policies = <<>> THEN Bool(found)
    ELSE LET hit == IAMPutEventsConditions_match_policy(Head(policies))
         IN IF IsRaise(hit) THEN hit
            ELSE IAMPutEventsConditions_policies_last(Tail(policies), Val(hit))

\* for policy in Policies: if self._match_policy(policy): found = True
RECURSIVE IAMPutEventsConditions_policies(_, _)
IAMPutEventsConditions_policies(policies, found) ==
    IF policies = <<>> THEN Bool(found)
    ELSE LET hit == IAMPutEventsConditions_match_policy(Head(policies))
         IN IF IsRaise(hit) THEN hit
            ELSE IAMPutEventsConditions_policies(Tail(policies), IF Val(hit) THEN TRUE ELSE found)

RECURSIVE IAMPutEventsConditions_roles(_, _)
IAMPutEventsConditions_roles(roles, matches) ==
    IF roles = <<>> THEN Ok(matches)
    ELSE LET role_name == Head(roles).name
             role == Head(roles).body
             policies == PyIter(PyGet(PyGet(role, "Properties", EmptyDict), "Policies", EmptyList))
             found == IAMPutEventsConditions_policies(Val(policies), FALSE)
         IN IF IsRaise(policies) THEN policies
            ELSE IF IsRaise(found) THEN found
            ELSE IF Val(found)
            THEN IAMPutEventsConditions_roles(Tail(roles), Append(matches,
                    RuleMatch(<<"Resources", role_name>>, IAMPutEventsConditions_message(role_name))))
            ELSE IAMPutEventsConditions_roles(Tail(roles), matches)

IAMPutEventsConditions_match(cfn) == IAMPutEventsConditions_roles(get_resources(cfn, {"AWS::IAM::Role"}), <<>>)

(* ------------------------------- templates ------------------------------ *)

RuleIds == {"E9000", "E9001", "E9002", "E9003", "E9004", "E9005", "E9006", "E9007"}

SeqsUpTo(S, n) == UNION {[1..k -> S] : k \in 0..n}

Absent == [absent |-> 0]

\* a resource body: Type, and Properties unless props is Absent
Body(type, props) ==
    IF props = Absent THEN Dict("Type" :> Str(type))
    ELSE Dict("Type" :> Str(type) @@ "Properties" :> props)

Resource(name, type, props) == [name |-> name, body |-> Body(type, props)]

Template(parameters, resources) == [Parameters |-> parameters, Resources |-> resources]

\* the i-th resource of a kind is called after the i-th logical name
LogicalNames == <<"Foo", "Bar", "Baz", "Qux">>

Named(prefix, type, propss) ==
    [i \in 1..Len(propss) |-> Resource(prefix \o LogicalNames[i], type, propss[i])]

GetAtt(name) == Dict("Fn::GetAtt" :> List(<<Str(name), Str("Arn")>>))
Ref(name) == Dict("Ref" :> Str(name))
Sub(chunks) == Dict("Fn::Sub" :> Text(chunks))

\* Parameters sections: the parameter names, in document order
ParamNames == {"Environment", "Stage", "LogLevel"}
ParamTemplates ==
    {Template(ps, <<>>) : ps \in {q \in SeqsUpTo(ParamNames, MaxResources) :
                                     \A i, j \in 1..Len(q) : i # j => q[i] # q[j]}}

\* AWS::Lambda::Function
FunctionProps == {
    Absent,
    EmptyDict,
    Dict("Runtime" :> Str("python3.9")),
    Dict("Runtime" :> Str("python3.8")),
    Dict("Runtime" :> Str("python3.9") @@ "Layers" :> List(<<LambdaInsightsLayer_layer_pattern>>)),
    Dict("Runtime" :> Str("python3.9") @@ "Layers" :> List(<<Ref("SharedLayer")>>)) }
FunctionTemplates ==
    {Template(<<>>, Named("", "AWS::Lambda::Function", fs)) : fs \in SeqsUpTo(FunctionProps, MaxResources)}

TwoFunctions ==
    <<Resource("Foo", "AWS::Lambda::Function", Dict("Runtime" :> Str("python3.9"))),
      Resource("Bar", "AWS::Lambda::Function", Dict("Runtime" :> Str("python3.9")))>>

\* AWS::Logs::LogGroup beside the functions Foo and Bar
LogGroupProps == {
    Absent,
    Dict("RetentionInDays" :> Str("30")),
    Dict("LogGroupName" :> Str("/aws/lambda/Foo")),
    Dict("LogGroupName" :> Sub(<<"/aws/lambda/", "$", "{", "Foo", "}">>)),
    Dict("LogGroupName" :> Sub(<<"/aws/lambda/", "$", "{", "Bar", "}">>)),
    Dict("LogGroupName" :> Sub(<<"/aws/lambda/", "$", "{", "Foo", "}", "-", "$", "{", "Environment", "}">>)),
    Dict("LogGroupName" :> Sub(<<"/aws/lambda/Foo-", "$", "{">>)) }
LogGroupTemplates ==
    {Template(<<>>, TwoFunctions \o Named("LogGroup", "AWS::Logs::LogGroup", gs)) :
        gs \in SeqsUpTo(LogGroupProps, MaxResources)}

\* AWS::Lambda::EventSourceMapping
Destination == Dict("Destination" :> GetAtt("DeadLetterQueue"))
ESMProps == {
    Absent,
    Dict("BatchSize" :> Str("10")),
    Dict("DestinationConfig" :> None),
    Dict("DestinationConfig" :> EmptyDict),
    Dict("DestinationConfig" :> Dict("OnFailure" :> None)),
    Dict("DestinationConfig" :> Dict("OnFailure" :> Destination)) }
ESMTemplates ==
    {Template(<<>>, Named("Mapping", "AWS::Lambda::EventSourceMapping", ms)) :
        ms \in SeqsUpTo(ESMProps, MaxResources)}

\* AWS::Events::Rule and AWS::Lambda::EventInvokeConfig beside Foo, Bar and a topic
TargetValues == {
    Dict("Arn" :> GetAtt("Foo")),
    Dict("Arn" :> GetAtt("Bar")),
    Dict("Arn" :> GetAtt("Topic")),
    Dict("Arn" :> Ref("Topic")) }
EventsRuleProps ==
    {Absent, Dict("State" :> Str("ENABLED"))}
    \cup {Dict("Targets" :> List(ts)) : ts \in SeqsUpTo(TargetValues, MaxTargets)}
InvokeConfigs == {
    <<>>,
    <<Resource("FooConfig", "AWS::Lambda::EventInvokeConfig",
        Dict("FunctionName" :> Ref("Foo") @@ "DestinationConfig" :> Dict("OnFailure" :> Destination)))>>,
    <<Resource("FooConfig", "AWS::Lambda::EventInvokeConfig",
        Dict("FunctionName" :> Ref("Foo") @@ "MaximumRetryAttempts" :> Str("2")))>>,
    <<Resource("FooConfig", "AWS::Lambda::EventInvokeConfig",
        Dict("FunctionName" :> Ref("Foo") @@ "DestinationConfig" :> None))>> }
SecondRule == {
    <<>>,
    <<Resource("OtherRule", "AWS::Events::Rule", Dict("Targets" :> List(<<Dict("Arn" :> GetAtt("Bar"))>>)))>> }
EventsRuleTemplates ==
    {Template(<<>>, TwoFunctions \o <<Resource("Topic", "AWS::SNS::Topic", Absent)>> \o cs
                    \o <<Resource("Rule", "AWS::Events::Rule", rp)>> \o sr) :
        cs \in InvokeConfigs, rp \in EventsRuleProps, sr \in SecondRule}

\* AWS::Lambda::Function with its AWS::IAM::Role, if any
OtherPolicyArn == Str("arn:aws:iam::aws:policy/service-role/AWSLambdaBasicExecutionRole")
NoRole == [norole |-> 0]
InsightsRoleProps == {
    NoRole,
    Absent,
    Dict("Path" :> Str("/")),
    Dict("ManagedPolicyArns" :> List(<<OtherPolicyArn>>)),
    Dict("ManagedPolicyArns" :> List(<<OtherPolicyArn, LambdaInsightsPermission_policy_arn>>)) }
RECURSIVE RolesFor(_, _)
RolesFor(rs, i) ==
    IF i > Len(rs) THEN <<>>
    ELSE (IF rs[i] = NoRole THEN <<>>
          ELSE <<Resource(LogicalNames[i] \o "Role", "AWS::IAM::Role", rs[i])>>) \o RolesFor(rs, i + 1)
InsightsTemplates ==
    {Template(<<>>, Named("", "AWS::Lambda::Function", [i \in 1..Len(rs) |-> Dict("Runtime" :> Str("python3.9"))])
                    \o RolesFor(rs, 1)) :
        rs \in SeqsUpTo(InsightsRoleProps, MaxResources)}

\* AWS::IAM::Role with inline policies
SourceCondition(value) == Dict("StringEquals" :> Dict("events:source" :> value))
Statements == {
    Dict("Effect" :> Str("Allow") @@ "Action" :> Str("events:PutEvents")),
    Dict("Effect" :> Str("Allow") @@ "Action" :> List(<<Str("sqs:SendMessage"), Str("events:PutEvents")>>)
         @@ "Condition" :> SourceCondition(Str("ecommerce.orders"))),
    Dict("Effect" :> Str("Allow") @@ "Action" :> Str("events:PutEvents")
         @@ "Condition" :> SourceCondition(EmptyList)),
    Dict("Effect" :> Str("Allow") @@ "Action" :> List(<<Str("events:PutEvents")>>)
         @@ "Condition" :> Dict("StringLike" :> Dict("events:detail-type" :> Str("Order*")))),
    Dict("Effect" :> Str("Allow") @@ "Action" :> Str("sqs:SendMessage")) }
Policy(statements) == Dict("PolicyName" :> Str("root") @@ "PolicyDocument" :> Dict("Statement" :> List(statements)))
Policies == {Policy(ss) : ss \in SeqsUpTo(Statements, MaxStatements)}
FirstPolicies == {
    Policy(<<Dict("Effect" :> Str("Allow") @@ "Action" :> Str("events:PutEvents"))>>),
    Policy(<<Dict("Effect" :> Str("Allow") @@ "Action" :> Str("sqs:SendMessage"))>>) }
PutEventsRoleProps ==
    {Absent, Dict("Path" :> Str("/"))}
    \cup {Dict("Policies" :> List(<<p>>)) : p \in Policies}
    \cup {Dict("Policies" :> List(<<q, p>>)) : q \in FirstPolicies, p \in Policies}
SecondRole == {
    <<>>,
    <<Resource("OtherRole", "AWS::IAM::Role",
        Dict("Policies" :> List(<<Policy(<<Dict("Effect" :> Str("Allow") @@ "Action" :> Str("events:PutEvents"))>>)>>)))>> }
PutEventsTemplates ==
    {Template(<<>>, <<Resource("Role", "AWS::IAM::Role", rp)>> \o sr) : rp \in PutEventsRoleProps, sr \in SecondRole}

Templates ==
    ParamTemplates \cup FunctionTemplates \cup LogGroupTemplates \cup ESMTemplates
    \cup EventsRuleTemplates \cup InsightsTemplates \cup PutEventsTemplates

\* the templates a process with every rule registered is run on
Corpus ==
    ParamTemplates
    \cup {Template(<<"Stage", "Environment">>,
            <<Resource("Foo", "AWS::Lambda::Function", Dict("Runtime" :> Str("python3.8"))),
              Resource("FooRole", "AWS::IAM::Role",
                Dict("Policies" :> List(<<Policy(<<Dict("Effect" :> Str("Allow") @@ "Action" :> Str("events:PutEvents"))>>)>>))),
              Resource("MappingFoo", "AWS::Lambda::EventSourceMapping", Dict("BatchSize" :> Str("10"))),
              Resource("Rule", "AWS::Events::Rule",
                Dict("Targets" :> List(<<Dict("Arn" :> GetAtt("Foo")), Dict("Arn" :> GetAtt("Foo"))>>)))>>),
          Template(<<"Environment">>,
            <<Resource("Foo", "AWS::Lambda::Function",
                Dict("Runtime" :> Str("python3.9") @@ "Layers" :> List(<<LambdaInsightsLayer_layer_pattern>>))),
              Resource("FooRole", "AWS::IAM::Role",
                Dict("ManagedPolicyArns" :> List(<<LambdaInsightsPermission_policy_arn>>))),
              Resource("LogGroupFoo", "AWS::Logs::LogGroup",
                Dict("LogGroupName" :> Sub(<<"/aws/lambda/", "$", "{", "Foo", "}">>)))>>),
          Template(<<>>, <<Resource("Foo", "AWS::Lambda::Function", Absent)>>)}

(* ------------------------------ the process ----------------------------- *)

Cleared == [r \in RuleIds |-> NotRun]

\* a process registers one rule and is given any template, or registers every
\* rule and is given a template of the corpus; no match has been called yet
Init ==
    /\ registry \in {{r} : r \in RuleIds} \cup {RuleIds}
    /\ template \in (IF registry = RuleIds THEN Corpus ELSE Templates)
    /\ _mandatory_parameters = MandatoryParametersRule_mandatory_parameters
    /\ done = {}
    /\ out = Cleared
    /\ prevOut = Cleared
    /\ runNo = 1

\* rule r's match returns (or raises) ret
Returns(r, ret) ==
    /\ r \in registry \ done
    /\ out' = [out EXCEPT ![r] = ret]
    /\ done' = done \cup {r}
    /\ UNCHANGED <<template, registry, prevOut, runNo>>

E9000_match ==
    LET res == MandatoryParametersRule_match(_mandatory_parameters, template)
    IN Returns("E9000", res.ret) /\ _mandatory_parameters' = res.cls

E9001_match == Returns("E9001", Python39Rule_match(template)) /\ UNCHANGED _mandatory_parameters

E9002_match == Returns("E9002", LambdaLogGroupRule_match(template)) /\ UNCHANGED _mandatory_parameters

E9003_match == Returns("E9003", LambdaESMDestinationConfig_match(template)) /\ UNCHANGED _mandatory_parameters

E9004_match == Returns("E9004", LambdaRuleInvokeConfig_match(template)) /\ UNCHANGED _mandatory_parameters

E9005_match == Returns("E9005", LambdaInsightsLayer_match(template)) /\ UNCHANGED _mandatory_parameters

E9006_match == Returns("E9006", LambdaInsightsPermission_match(template)) /\ UNCHANGED _mandatory_parameters

E9007_match == Returns("E9007", IAMPutEventsConditions_match(template)) /\ UNCHANGED _mandatory_parameters

\* the rules are run once more on the same template
NextRun ==
    /\ done = registry
    /\ runNo < MaxRuns
    /\ runNo' = runNo + 1
    /\ prevOut' = out
    /\ out' = Cleared
    /\ done' = {}
    /\ UNCHANGED <<template, _mandatory_parameters, registry>>

\* the process goes on to another template
LoadTemplate ==
    /\ done = registry
    /\ runNo < MaxRuns
    /\ \E t \in Corpus : t # template /\ template' = t
    /\ runNo' = runNo + 1
    /\ prevOut' = Cleared
    /\ out' = Cleared
    /\ done' = {}
    /\ UNCHANGED <<_mandatory_parameters, registry>>

Next ==
    \/ E9000_match
    \/ E9001_match
    \/ E9002_match
    \/ E9003_match
    \/ E9004_match
    \/ E9005_match
    \/ E9006_match
    \/ E9007_match
    \/ NextRun
    \/ LoadTemplate

Spec == Init /\ [][Next]_vars

(* ------------------------------- properties ----------------------------- *)

\* what a template says, read without the rules' code: the value under key k
\* of v, None when v is no mapping or has no such key
Field(v, k) == IF Tag(v) = "dict" /\ k \in DOMAIN Val(v) THEN Val(v)[k] ELSE None

OfType(type) == SelectSeq(template.Resources, LAMBDA e : Field(e.body, "Type") = Str(type))

NamesOfType(type) == {OfType(type)[i].name : i \in 1..Len(OfType(type))}

\* the number of violations of a result that carry the path
Count(matches, path) == Cardinality({i \in 1..Len(matches) : matches[i].path = path})

Items(v) == IF Tag(v) = "list" THEN {Val(v)[i] : i \in 1..Len(Val(v))} ELSE {}

HasOnFailure(body) == Field(Field(Field(body, "Properties"), "DestinationConfig"), "OnFailure") # None

\* the functions named by the FunctionName Ref of an event invoke config with
\* a non-null DestinationConfig.OnFailure
CoveredByInvokeConfig ==
    {Join(Val(Field(Field(Field(OfType("AWS::Lambda::EventInvokeConfig")[i].body, "Properties"), "FunctionName"), "Ref"))) :
        i \in {j \in 1..Len(OfType("AWS::Lambda::EventInvokeConfig")) :
                  HasOnFailure(OfType("AWS::Lambda::EventInvokeConfig")[j].body)}}

\* a target whose Arn is an Fn::GetAtt on an uncovered function
QualifyingTarget(target) ==
    LET get_att == Field(Field(target, "Arn"), "Fn::GetAtt")
    IN /\ Tag(get_att) = "list" /\ Val(get_att) # <<>> /\ Tag(Val(get_att)[1]) = "str"
       /\ Join(Val(Val(get_att)[1])) \in NamesOfType("AWS::Lambda::Function")
       /\ Join(Val(Val(get_att)[1])) \notin CoveredByInvokeConfig

QualifyingTargets(body) ==
    LET targets == Field(Field(body, "Properties"), "Targets")
    IN IF Tag(targets) = "list" THEN {i \in 1..Len(Val(targets)) : QualifyingTarget(Val(targets)[i])} ELSE {}

\* C1: when LambdaRuleInvokeConfig.match (E9004) returns, every AWS::Events::Rule
\* has at most one violation, and has one iff at least one of its targets is
\* an Fn::GetAtt on a function outside the covered set; two qualifying
\* targets still give one violation.
C1_OneViolationPerRule ==
    ("E9004" \in done /\ Tag(out["E9004"]) = "ok") =>
        \A i \in 1..Len(OfType("AWS::Events::Rule")) :
            LET rule == OfType("AWS::Events::Rule")[i]
            IN Count(Val(out["E9004"]), <<"Resources", rule.name>>)
                 = (IF QualifyingTargets(rule.body) # {} THEN 1 ELSE 0)

\* the well-formed ${...} placeholders of a text, left to right
RECURSIVE Placeholders(_)
Placeholders(s) ==
    LET opens == {i \in 1..(Len(s) - 3) :
                     /\ s[i] = "$" /\ s[i + 1] = "{" /\ s[i + 2] # "}"
                     /\ \E j \in (i + 3)..Len(s) : s[j] = "}"}
    IN IF opens = {} THEN <<>>
       ELSE LET i == Min(opens)
                j == Min({k \in (i + 3)..Len(s) : s[k] = "}"})
            IN <<Join(SubSeq(s, i + 2, j - 1))>> \o Placeholders(SubSeq(s, j + 1, Len(s)))

SubOf(body) == Field(Field(Field(body, "Properties"), "LogGroupName"), "Fn::Sub")

\* the identifiers of the log groups named by an Fn::Sub with exactly one placeholder
CoveredByLogGroup ==
    {Placeholders(Val(SubOf(OfType("AWS::Logs::LogGroup")[i].body)))[1] :
        i \in {j \in 1..Len(OfType("AWS::Logs::LogGroup")) :
                  /\ Tag(SubOf(OfType("AWS::Logs::LogGroup")[j].body)) = "str"
                  /\ Len(Placeholders(Val(SubOf(OfType("AWS::Logs::LogGroup")[j].body)))) = 1}}

\* C2: when LambdaLogGroupRule.match (E9002) returns, there is exactly one
\* violation for each function that is not named by the single placeholder of
\* some log group's Fn::Sub name, and none for a function that is; a name with
\* no or with several placeholders covers nothing.
C2_OnePlaceholderCovers ==
    ("E9002" \in done /\ Tag(out["E9002"]) = "ok") =>
        \A f \in NamesOfType("AWS::Lambda::Function") :
            Count(Val(out["E9002"]), <<"Resources", f>>) = (IF f \in CoveredByLogGroup THEN 0 ELSE 1)

MissingRole == \E f \in NamesOfType("AWS::Lambda::Function") : (f \o "Role") \notin NamesOfType("AWS::IAM::Role")

\* C3: LambdaInsightsPermission.match (E9006) on a template with a function F
\* and no AWS::IAM::Role called F + "Role" ends in a KeyError, whatever the
\* other functions and roles are; it returns no violation list.
C3_MissingRoleRaises ==
    ("E9006" \in done /\ MissingRole) => out["E9006"] = Raise("KeyError")

\* C3's case: one function has its role, another has none, and the rule has run
C3_Witness ==
    /\ "E9006" \in done /\ MissingRole
    /\ \E f \in NamesOfType("AWS::Lambda::Function") : (f \o "Role") \in NamesOfType("AWS::IAM::Role")
    /\ Tag(out["E9006"]) = "raise"

PutEvents(statement) ==
    LET action == Field(statement, "Action")
    IN action = Str("events:PutEvents") \/ Str("events:PutEvents") \in Items(action)

StatementsOf(body) ==
    UNION {Items(Field(Field(policy, "PolicyDocument"), "Statement")) :
              policy \in Items(Field(Field(body, "Properties"), "Policies"))}

SourceEntry(statement) == Field(Field(Field(statement, "Condition"), "StringEquals"), "events:source")

EmptySource(statement) == SourceEntry(statement) \in {None, EmptyList, EmptyDict, Text(<<>>)}

LacksProperties(type) ==
    \E i \in 1..Len(OfType(type)) : "Properties" \notin DOMAIN Val(OfType(type)[i].body)

\* C5: Python39Rule.match and LambdaLogGroupRule.match return a violation list,
\* and do not raise, on a template in which a resource of a type they inspect
\* has a Type and no Properties.
C5_NoPropertiesIsAbsent ==
    /\ ("E9001" \in done /\ LacksProperties("AWS::Lambda::Function")) => Tag(out["E9001"]) = "ok"
    /\ ("E9002" \in done /\ (LacksProperties("AWS::Lambda::Function") \/ LacksProperties("AWS::Logs::LogGroup")))
          => Tag(out["E9002"]) = "ok"

\* C6: when MandatoryParametersRule.match (E9000) returns, the result is one
\* violation, path [Parameters] and a message naming the parameter, for each
\* required name that is no key of Parameters, and nothing else; parameters
\* that are not required change nothing.
C6_MissingRequiredParameters ==
    "E9000" \in done =>
        out["E9000"] = Ok(IF InSeq("Environment", template.Parameters) THEN <<>>
                          ELSE <<RuleMatch(<<"Parameters">>, "Missing parameter 'Environment'")>>)

\* C6's cases: a template with other parameters and no Environment has the one
\* violation
C6_Witness ==
    /\ "E9000" \in done
    /\ template.Parameters # <<>> /\ ~InSeq("Environment", template.Parameters)
    /\ Tag(out["E9000"]) = "ok" /\ Len(Val(out["E9000"])) = 1

\* C7: a rule run again on the same template returns what it returned in the
\* run before, violations in the same order, and the class-level list of
\* required parameters is what it was before any match.
C7_RunsAgree ==
    /\ _mandatory_parameters = MandatoryParametersRule_mandatory_parameters
    /\ \A r \in done : prevOut[r] # NotRun => out[r] = prevOut[r]

\* C7's case: a second run, on a template with the Environment parameter, of
\* every rule, after a first run that reported violations
C7_Witness ==
    /\ runNo = 2 /\ done = RuleIds
    /\ InSeq("Environment", template.Parameters)
    /\ \A r \in RuleIds : prevOut[r] # NotRun
    /\ \E r \in RuleIds : Tag(out[r]) = "ok" /\ Val(out[r]) # <<>>

\* a rule's match on its own, with the class attributes as the module sets them
Alone(r, cfn) ==
    CASE r = "E9000" -> MandatoryParametersRule_match(MandatoryParametersRule_mandatory_parameters, cfn).ret
      [] r = "E9001" -> Python39Rule_match(cfn)
      [] r = "E9002" -> LambdaLogGroupRule_match(cfn)
      [] r = "E9003" -> LambdaESMDestinationConfig_match(cfn)
      [] r = "E9004" -> LambdaRuleInvokeConfig_match(cfn)
      [] r = "E9005" -> LambdaInsightsLayer_match(cfn)
      [] r = "E9006" -> LambdaInsightsPermission_match(cfn)
      [] r = "E9007" -> IAMPutEventsConditions_match(cfn)

\* the (rule id, path, message) set of an outcome; a raise counts as itself
ViolationSet(r, res) ==
    IF Tag(res) = "ok" THEN {<<r, Val(res)[i].path, Val(res)[i].message>> : i \in 1..Len(Val(res))}
    ELSE {<<r, <<"raise">>, Val(res)>>}

C9_FlaggedIffNoOnFailure ==
    "E9003" \in done =>
        /\ Tag(out["E9003"]) = "ok"
        /\ \A i \in 1..Len(OfType("AWS::Lambda::EventSourceMapping")) :
              LET mapping == OfType("AWS::Lambda::EventSourceMapping")[i]
              IN Count(Val(out["E9003"]), <<"Resources", mapping.name>>)
                   = (IF HasOnFailure(mapping.body) THEN 0 ELSE 1)

RuntimeOf(body) == Field(Field(body, "Properties"), "Runtime")

RECURSIVE RuntimeViolations(_)
RuntimeViolations(functions) ==
    IF functions = <<>> THEN <<>>
    ELSE (IF RuntimeOf(Head(functions).body) = Str("python3.9") THEN <<>>
          ELSE <<RuleMatch(<<"Resources", Head(functions).name>>,
                    "Function is using " \o PyFormat(RuntimeOf(Head(functions).body))
                        \o " runtime instead of python3.9")>>)
         \o RuntimeViolations(Tail(functions))

\* C10: when Python39Rule.match (E9001) returns, the result is, in document
\* order, one violation for each AWS::Lambda::Function whose Runtime is not
\* python3.9 (a missing Runtime differs), with a message carrying the actual
\* and the expected runtime, and nothing for the other functions.
C10_RuntimeViolations ==
    "E9001" \in done => out["E9001"] = Ok(RuntimeViolations(OfType("AWS::Lambda::Function")))

====
